---- MODULE Spec2Model ----
(***************************************************************************)
(* A model of relay/ts/src/listener.ts: the inscription map, the trusted   *)
(* set of IPFS cluster ids, the service.json trusted_peers field and the   *)
(* finalized-head callback that ties them together.                        *)
(*                                                                         *)
(* JavaScript objects and Sets iterate in insertion order, so both the     *)
(* inscription map and the trusted set are sequences: the map a sequence   *)
(* of [key, value] pairs with distinct keys, the set a sequence without    *)
(* duplicates.  An action is the code that runs between two awaits (or     *)
(* between an async function's return and its caller's continuation).      *)
(***************************************************************************)
EXTENDS Integers, Sequences, FiniteSets, TLC

\* ------------------------------------------------------------------ bounds

\* Highest block number that is finalized, inscribed at, or evaluated at.
MaxBlock == 1

\* Most extrinsics in a block handed to the extractor.
MaxExtrinsics == 2

\* Highest --min-stake (in TAO) tried by the trust evaluation.
MaxMinStake == 1

\* Longest trusted_peers list found in service.json at start.
MaxPeers == 2

\* Most reconcile passes run over one inscription that is not renewed.
MaxRuns == 3

\* ------------------------------------------------------------ value spaces

Hotkeys == {"hkA", "hkB"}

ClusterIds == {"Qm1", "Qm2"}

\* JavaScript null, where the other values are strings.
Null == "null"

\* Option<u16> of a chain query: isNone, and the value unwrap() gives.
OptionNone == [isNone |-> TRUE, value |-> 0]

OptionSome(v) == [isNone |-> FALSE, value |-> v]

\* A parsed JSON value that is null or an array of strings.
JsonNull == [isNull |-> TRUE, array |-> <<>>]

JsonArray(array) == [isNull |-> FALSE, array |-> array]

Tasks == {1, 2}

Blocks == 0..MaxBlock

\* The subnet the listener is started for (--netuid) and another one.
Netuid == 7

OtherNetuid == Netuid + 1

\* ------------------------------------------------------- sequence helpers

Range(s) == {s[i] : i \in 1..Len(s)}

RECURSIVE SeqsUpTo(_, _)
\* All sequences over S of length at most n.
SeqsUpTo(S, n) ==
    IF n = 0 THEN {<<>>}
    ELSE LET shorter == SeqsUpTo(S, n - 1)
         IN  shorter \cup {Append(s, x) : s \in {q \in shorter : Len(q) = n - 1}, x \in S}

IsInjective(s) == \A i, j \in 1..Len(s) : s[i] = s[j] => i = j

\* --------------------------------------------- Record<string, IpfsInscription>

Inscriptions == [ipfsClusterId : ClusterIds, hotkey : Hotkeys, inscribedAt : Blocks]

MapKeys(map) == {map[i].key : i \in 1..Len(map)}

MapIndex(map, k) == CHOOSE i \in 1..Len(map) : map[i].key = k

MapGet(map, k) == map[MapIndex(map, k)].value

\* A plausible bug: keep the stored inscription when it is the newer one.
MapSetKeepNewest(map, k, v) ==
    IF k \in MapKeys(map)
    THEN IF MapGet(map, k).inscribedAt > v.inscribedAt
         THEN map
         ELSE [map EXCEPT ![MapIndex(map, k)].value = v]
    ELSE Append(map, [key |-> k, value |-> v])

\* A plausible bug: the map is rebuilt from the entry.
MapSetFresh(map, k, v) == <<[key |-> k, value |-> v]>>

\* map[k] = v: an existing key keeps its place in the iteration order, a new
\* key goes last.
MapSet(map, k, v) ==
    IF k \in MapKeys(map)
    THEN [map EXCEPT ![MapIndex(map, k)].value = v]
    ELSE Append(map, [key |-> k, value |-> v])

\* ----------------------------------------------------------- Set<string>

SetHas(set, x) == x \in Range(set)

SetAdd(set, x) == IF SetHas(set, x) THEN set ELSE Append(set, x)

SetDelete(set, x) == SelectSeq(set, LAMBDA y : y # x)

RECURSIVE NewSet(_)
\* new Set(array): the distinct elements, each at its first place.
NewSet(array) ==
    IF array = <<>> THEN <<>>
    ELSE LET init == NewSet(SubSeq(array, 1, Len(array) - 1))
         IN  SetAdd(init, array[Len(array)])

\* A plausible bug: the last element is left out.
ArrayFromDropLast(set) == SubSeq(set, 1, Len(set) - 1)

\* Array.from(set): the elements in insertion order.
ArrayFrom(set) == set

\* A plausible bug: compare the sizes only.
SetIsEqualSizeOnly(a, b) == Len(a) = Len(b)

setIsEqual(a, b) == Len(a) = Len(b) /\ \A i \in 1..Len(a) : SetHas(b, a[i])

\* ------------------------------------------------ blocks handed to the extractor

\* The commitment payload (extrinsic.args[1]): a cluster id, the empty
\* string, or bytes that do not decode.
Payloads == ClusterIds \cup {"", "garbage"}

\* One extrinsic that is not commitments.setCommitment (its arguments would
\* pass every later test), and every setCommitment extrinsic.
Extrinsics ==
    {[isSetCommitment |-> FALSE, netuid |-> Netuid, commitmentInfo |-> "Qm1", signer |-> "hkA"]}
    \cup [isSetCommitment : {TRUE}, netuid : {Netuid, OtherNetuid},
          commitmentInfo : Payloads, signer : Hotkeys]

Outcomes == {"ExtrinsicSuccess", "ExtrinsicFailed"}

\* system.events() of a block: one event of the initialization phase, then
\* for the extrinsic at index i (from 0) its outcome event.
EventsOf(outcomes) ==
    <<[isApplyExtrinsic |-> FALSE, asApplyExtrinsic |-> -1, event |-> "NewAccount"]>>
    \o [i \in 1..Len(outcomes) |->
          [isApplyExtrinsic |-> TRUE, asApplyExtrinsic |-> i - 1, event |-> outcomes[i]]]

\* The signed blocks with at most n extrinsics.
SignedBlocks(n) ==
    {[number |-> b, extrinsics |-> xs, events |-> EventsOf(SubSeq(os, 1, Len(xs)))] :
        b \in Blocks,
        xs \in SeqsUpTo(Extrinsics, n),
        os \in {o \in SeqsUpTo(Outcomes, n) : Len(o) = n}}

\* The blocks handed to the extractor: with one extrinsic where it runs
\* among the other operations, with up to MaxExtrinsics where it runs alone.
SingleExtrinsicBlocks == SignedBlocks(1)

FullBlocks == SignedBlocks(MaxExtrinsics)

\* ------------------------------------- updateLatestInscriptionMapFromExtrinsics

\* parseIpfsClusterIdFromExtrinsic (utils/commitments): the cluster id the
\* payload carries, null when it does not decode.
parseIpfsClusterIdFromExtrinsic(commitmentInfo) ==
    IF commitmentInfo = "garbage" THEN Null ELSE commitmentInfo

\* The events of the extrinsic at `index` (from 0).
extrinsicEvents(allRecords, index) ==
    SelectSeq(allRecords,
              LAMBDA r : r.isApplyExtrinsic /\ r.asApplyExtrinsic = index)

\* A plausible bug: a success event anywhere in the block counts.
extrinsicIsSuccessAnyIndex(allRecords, index) ==
    \E i \in 1..Len(allRecords) : allRecords[i].event = "ExtrinsicSuccess"

extrinsicIsSuccess(allRecords, index) ==
    LET events == extrinsicEvents(allRecords, index)
    IN  \E i \in 1..Len(events) : events[i].event = "ExtrinsicSuccess"

\* One pass of the loop body for the extrinsic at `index` (from 0): the
\* IpfsInscription it stores as <<inscription>>, or <<>> (null) when it
\* continues without storing.
parsedCommitment(block, index, netuid, allowUnsuccessfulCommitments) ==
    LET extrinsic == block.extrinsics[index + 1]
        ipfsClusterId == parseIpfsClusterIdFromExtrinsic(extrinsic.commitmentInfo)
    IN  IF ~extrinsic.isSetCommitment THEN <<>>
        ELSE IF extrinsic.netuid # netuid THEN <<>>
        ELSE IF ~extrinsicIsSuccess(block.events, index) /\ ~allowUnsuccessfulCommitments
             THEN <<>>
        ELSE IF ipfsClusterId = Null \/ ipfsClusterId = "" THEN <<>>
        ELSE <<[ipfsClusterId |-> ipfsClusterId,
                hotkey |-> extrinsic.signer,
                inscribedAt |-> block.number]>>

RECURSIVE extractLoopStopsAtSkip(_, _, _, _, _)
\* A plausible bug: a skipped extrinsic ends the loop (break for continue).
extractLoopStopsAtSkip(map, block, index, netuid, allowUnsuccessfulCommitments) ==
    IF index >= Len(block.extrinsics) THEN map
    ELSE LET parsed == parsedCommitment(block, index, netuid, allowUnsuccessfulCommitments)
         IN  IF parsed = <<>> THEN map
             ELSE extractLoopStopsAtSkip(MapSet(map, parsed[1].hotkey, parsed[1]), block,
                                         index + 1, netuid, allowUnsuccessfulCommitments)

RECURSIVE extractLoop(_, _, _, _, _)
\* The for loop from `index` (from 0) to the last extrinsic of the block.
extractLoop(map, block, index, netuid, allowUnsuccessfulCommitments) ==
    IF index >= Len(block.extrinsics) THEN map
    ELSE LET parsed == parsedCommitment(block, index, netuid, allowUnsuccessfulCommitments)
             next == IF parsed = <<>> THEN map ELSE MapSet(map, parsed[1].hotkey, parsed[1])
         IN  extractLoop(next, block, index + 1, netuid, allowUnsuccessfulCommitments)

\* ------------------------------------------------- updateLatestInscriptionMap

\* queryCommitmentsForIpfsClusterIds (utils/commitments): the inscriptions in
\* the subnet's commitment storage, one per hotkey at most, in storage order.
CommitmentLists ==
    {list \in SeqsUpTo(Inscriptions, Cardinality(Hotkeys)) :
        IsInjective([i \in 1..Len(list) |-> list[i].hotkey])}

RECURSIVE resyncLoop(_, _, _)
\* for (const inscription of ipfsClusterIdCommitments), from position i.
resyncLoop(map, list, i) ==
    IF i > Len(list) THEN map
    ELSE resyncLoop(MapSet(map, list[i].hotkey, list[i]), list, i + 1)

\* ------------------------------------------------------------- chain state

\* rao per TAO (utils/rao).
RaoPerTao == 1000000000

\* Total stakes in rao: around every threshold the evaluation is tried with.
StakeValues ==
    {m * RaoPerTao + d : m \in 0..MaxMinStake, d \in {-1, 0, 1}} \ {-1}

\* The uid a hotkey gets when it registers in the subnet.
UidOf(hotkey) == IF hotkey = "hkA" THEN 0 ELSE 1

\* subtensorModule.uids, .validatorPermit (an array indexed by uid) and
\* .totalHotkeyStake as the queries answer them.
ChainStates ==
    [uids : {u \in [Hotkeys -> {OptionNone} \cup {OptionSome(UidOf(h)) : h \in Hotkeys}] :
                 \A h \in Hotkeys : u[h] \in {OptionNone, OptionSome(UidOf(h))}},
     validatorPermit : [1..Cardinality(Hotkeys) -> BOOLEAN],
     totalHotkeyStake : [Hotkeys -> StakeValues]]

\* ------------------------------------------------------------ canBeTrusted

\* fromRao (utils/rao): the stake in TAO as a decimal, whole and fraction.
fromRao(stakeRao) ==
    [whole |-> stakeRao \div RaoPerTao, frac |-> stakeRao % RaoPerTao]

\* BigNumber.lt against a whole number of TAO.
DecimalLt(stakeTao, n) == stakeTao.whole < n

\* A plausible bug: the age of the inscription is not checked.
canBeTrustedNoExpiry(chainState, hotkey, minStake, inscription, currentBlockNumber, timeWindow) ==
    LET uid == chainState.uids[hotkey]
    IN  /\ ~uid.isNone
        /\ chainState.validatorPermit[uid.value + 1]
        /\ ~DecimalLt(fromRao(chainState.totalHotkeyStake[hotkey]), minStake)

\* A plausible bug: both boundaries exclusive.
canBeTrustedExclusive(chainState, hotkey, minStake, inscription, currentBlockNumber, timeWindow) ==
    LET uid == chainState.uids[hotkey]
    IN  /\ ~uid.isNone
        /\ chainState.validatorPermit[uid.value + 1]
        /\ chainState.totalHotkeyStake[hotkey] > minStake * RaoPerTao
        /\ inscription.inscribedAt > currentBlockNumber - timeWindow

canBeTrusted(chainState, hotkey, minStake, inscription, currentBlockNumber, timeWindow) ==
    LET uid == chainState.uids[hotkey]
    IN  IF uid.isNone THEN FALSE
        ELSE IF ~chainState.validatorPermit[uid.value + 1] THEN FALSE
        ELSE IF DecimalLt(fromRao(chainState.totalHotkeyStake[hotkey]), minStake) THEN FALSE
        ELSE IF inscription.inscribedAt < currentBlockNumber - timeWindow THEN FALSE
        ELSE TRUE

\* ---------------------------------------------- updateTrustedIpfsClusterIds

\* A plausible bug: an untrusted verdict never removes a cluster id.
applyVerdictAddOnly(set, ipfsClusterId, wasTrusted, currentlyTrusted) ==
    IF ~wasTrusted /\ currentlyTrusted THEN SetAdd(set, ipfsClusterId) ELSE set

\* The if / else if at the end of the loop body, on the trusted set.
\* A plausible bug: a cluster id not yet trusted is added whatever the verdict.
applyVerdictAddsUntrusted(set, ipfsClusterId, wasTrusted, currentlyTrusted) ==
    IF wasTrusted /\ ~currentlyTrusted THEN SetDelete(set, ipfsClusterId)
    ELSE IF ~wasTrusted THEN SetAdd(set, ipfsClusterId)
    ELSE set

applyVerdict(set, ipfsClusterId, wasTrusted, currentlyTrusted) ==
    IF wasTrusted /\ ~currentlyTrusted THEN SetDelete(set, ipfsClusterId)
    ELSE IF ~wasTrusted /\ currentlyTrusted THEN SetAdd(set, ipfsClusterId)
    ELSE set

\* The same if / else if, on wasChange.
nextWasChange(wasChange, wasTrusted, currentlyTrusted) ==
    IF wasTrusted /\ ~currentlyTrusted THEN TRUE
    ELSE IF ~wasTrusted /\ currentlyTrusted THEN TRUE
    ELSE wasChange

\* ------------------------------------------------------------ service.json

\* JSON text is a sequence of tokens: "[", "]", ",", "null", and a string
\* literal as the string between two quote marks.
Quote == "\""

RECURSIVE JsonStringifyItems(_)
\* The items of a non-empty array, separated by commas.
JsonStringifyItems(array) ==
    IF Len(array) = 1 THEN <<Quote, array[1], Quote>>
    ELSE JsonStringifyItems(SubSeq(array, 1, Len(array) - 1))
         \o <<",", Quote, array[Len(array)], Quote>>

\* JSON.stringify of null or of an array of strings.
JsonStringify(value) ==
    IF value.isNull THEN <<"null">>
    ELSE IF value.array = <<>> THEN <<"[", "]">>
    ELSE <<"[">> \o JsonStringifyItems(value.array) \o <<"]">>

\* JSON.parse of such text: an item takes four tokens, the comma or the
\* opening bracket before it and its literal.
JsonParse(tokens) ==
    IF tokens = <<"null">> THEN JsonNull
    ELSE JsonArray([i \in 1..((Len(tokens) - 1) \div 4) |-> tokens[4 * i - 1]])

\* JSON.stringify and JSON.parse of a string.
JsonStringifyString(string) == <<Quote, string, Quote>>

JsonParseString(tokens) == tokens[2]

\* The text of service.json, value by value, with `peername` as
\* cluster.peername and `peers` (JsonNull or a JsonArray) as
\* consensus.crdt.trusted_peers.
ServiceJsonFileOf(peername, peers) ==
    [cluster |-> [peername |-> JsonStringifyString(peername)],
     consensus |-> [crdt |-> [cluster_name |-> JsonStringifyString("ipfs-cluster"),
                              trusted_peers |-> JsonStringify(peers)]]]

\* The same for the peer named "relay".
ServiceJsonFile(peers) == ServiceJsonFileOf("relay", peers)

\* A plausible bug: the document is written anew around the list.
updateWritesFreshDocument(file, set, alwaysUpdate) ==
    LET parsed == JsonParse(file.consensus.crdt.trusted_peers)
        currentEqualsStored ==
            setIsEqual(NewSet(IF parsed.isNull THEN <<>> ELSE parsed.array), set)
    IN  IF ~(alwaysUpdate \/ ~currentEqualsStored)
        THEN [file |-> file, wrote |-> FALSE, returned |-> FALSE]
        ELSE [file |-> ServiceJsonFile(JsonArray(set)), wrote |-> TRUE, returned |-> TRUE]

\* A plausible bug: the test on currentEqualsStored is not negated.
doUpdateNotNegated(alwaysUpdate, currentEqualsStored) ==
    alwaysUpdate \/ currentEqualsStored

doUpdate(alwaysUpdate, currentEqualsStored) == alwaysUpdate \/ ~currentEqualsStored

\* updateTrustedPeersInServiceJsonFile: the file afterwards, whether
\* writeFileSync was called, and the value returned.
updateTrustedPeersInServiceJsonFile(file, set, alwaysUpdate) ==
    LET parsed == JsonParse(file.consensus.crdt.trusted_peers)
        peername == JsonParseString(file.cluster.peername)
        cluster_name == JsonParseString(file.consensus.crdt.cluster_name)
        serviceJsonTrustedPeers == IF parsed.isNull THEN <<>> ELSE parsed.array
        trustedPeers == ArrayFrom(set)
        currentEqualsStored == setIsEqual(NewSet(serviceJsonTrustedPeers), set)
    IN  IF ~doUpdate(alwaysUpdate, currentEqualsStored)
        THEN [file |-> file, wrote |-> FALSE, returned |-> FALSE]
        ELSE [file |->
                  [cluster |-> [peername |-> JsonStringifyString(peername)],
                   consensus |-> [crdt |->
                       [cluster_name |-> JsonStringifyString(cluster_name),
                        trusted_peers |-> JsonStringify(JsonArray(trustedPeers))]]],
              wrote |-> TRUE,
              returned |-> TRUE]

\* ------------------------------------------------------------------- state

VARIABLES
    latestInscriptionMap,   \* the module-level Record<string, IpfsInscription>
    trustedIpfsClusterIds,  \* the module-level Set<string>
    serviceJson,            \* the file at --service-json-file-path
    chain,                  \* what the subtensorModule queries answer now
    argv,                   \* the parsed command line
    head,                   \* number of the last finalized head delivered
    pc,                     \* per task: where its async call chain is suspended
    frame,                  \* per task: the locals of that call chain
    cycleLog,               \* per task: what its last callback did, in order
    lastApplied,            \* per hotkey: the last observation handed to the map
    probe                   \* the last direct call of a function and its result

vars ==
    <<latestInscriptionMap, trustedIpfsClusterIds, serviceJson, chain, argv,
      head, pc, frame, cycleLog, lastApplied, probe>>

\* The locals of updateTrustedIpfsClusterIds and of the callback around it.
\* listed, verdicts, evaluated, stored, before, second and stable only
\* record the pass for the properties: the hotkeys the callback's resync was
\* answered with, the verdict of each entry evaluated so far, the [hotkey,
\* inscription] pair handed to canBeTrusted for it and the inscription the
\* map held for that hotkey at that moment, the trusted set the pass started
\* from, whether the pass repeats the one before it, and whether the chain
\* state stood still since that first pass began.
IdleFrame ==
    [mode |-> "idle", currentBlockNumber |-> 0, entries |-> <<>>, index |-> 0,
     wasTrusted |-> FALSE, wasChange |-> FALSE, listed |-> {},
     verdicts |-> <<>>, evaluated |-> <<>>, stored |-> <<>>, before |-> <<>>,
     second |-> FALSE, stable |-> TRUE]

NoProbe == [call |-> "none"]

AllIdle == \A t \in Tasks : pc[t] = "idle"

\* The chain states of the running listener: each hotkey is unregistered,
\* permitted with one rao less than MinStake TAO, or permitted with exactly
\* MinStake TAO.
Standings == {"unregistered", "lowstake", "ok"}

\* --min-stake and --time-window of the running listener.
MinStake == 1

TimeWindow == 0

ChainOf(standing) ==
    [uids |-> [h \in Hotkeys |->
                  IF standing[h] = "unregistered" THEN OptionNone
                  ELSE OptionSome(UidOf(h))],
     validatorPermit |-> [i \in 1..Cardinality(Hotkeys) |->
                  \E h \in Hotkeys : UidOf(h) + 1 = i /\ standing[h] \in {"lowstake", "ok"}],
     totalHotkeyStake |-> [h \in Hotkeys |->
                  IF standing[h] = "lowstake" THEN MinStake * RaoPerTao - 1
                  ELSE MinStake * RaoPerTao]]

ListenerChains == {ChainOf(st) : st \in [Hotkeys -> Standings]}

\* The values of cluster.peername.
PeerNames == {"relay", "node0"}

\* service.json as found at start: no trusted_peers, or any short list.
InitialFiles ==
    {ServiceJsonFileOf(peername, JsonNull) : peername \in PeerNames}
    \cup {ServiceJsonFileOf(peername, JsonArray(a)) :
             peername \in PeerNames, a \in SeqsUpTo(ClusterIds, MaxPeers)}

Init ==
    /\ latestInscriptionMap = <<>>
    /\ trustedIpfsClusterIds = <<>>
    /\ serviceJson = ServiceJsonFile(JsonArray(<<"Qm1">>))
    /\ chain \in ListenerChains
    /\ argv \in [netuid : {Netuid}, minStake : {MinStake}, timeWindow : {TimeWindow},
                 allowUnsuccessfulCommitments : {FALSE},
                 alwaysUpdateServiceJson : BOOLEAN]
    /\ head = 0
    /\ pc = [t \in Tasks |-> "idle"]
    /\ frame = [t \in Tasks |-> IdleFrame]
    /\ cycleLog = [t \in Tasks |-> <<>>]
    /\ lastApplied = [h \in Hotkeys |-> <<>>]
    /\ probe = NoProbe

\* ---------------------------------------------------- what the map was handed

\* The extrinsic at position i (from 1) of the block is one the extractor is
\* to record: a setCommitment call for the subnet, successful (or failures are
\* allowed), whose payload carries a cluster id.
Acceptable(block, i, netuid, allowUnsuccessfulCommitments) ==
    LET x == block.extrinsics[i]
    IN  /\ x.isSetCommitment
        /\ x.netuid = netuid
        /\ \/ allowUnsuccessfulCommitments
           \/ \E j \in 1..Len(block.events) :
                 /\ block.events[j].isApplyExtrinsic
                 /\ block.events[j].asApplyExtrinsic = i - 1
                 /\ block.events[j].event = "ExtrinsicSuccess"
        /\ x.commitmentInfo \in ClusterIds

ObservationOf(block, i) ==
    [ipfsClusterId |-> block.extrinsics[i].commitmentInfo,
     hotkey |-> block.extrinsics[i].signer,
     inscribedAt |-> block.number]

\* lastApplied after the extractor ran on the block: per signer, the last
\* acceptable extrinsic in block order.
AppliedByBlock(applied, block, netuid, allowUnsuccessfulCommitments) ==
    [h \in Hotkeys |->
        LET mine == {i \in 1..Len(block.extrinsics) :
                        /\ Acceptable(block, i, netuid, allowUnsuccessfulCommitments)
                        /\ block.extrinsics[i].signer = h}
        IN  IF mine = {} THEN applied[h]
            ELSE <<ObservationOf(block, CHOOSE i \in mine : \A j \in mine : j <= i)>>]

\* lastApplied after a resync with the list.
AppliedByList(applied, list) ==
    [h \in Hotkeys |->
        LET mine == {i \in 1..Len(list) : list[i].hotkey = h}
        IN  IF mine = {} THEN applied[h]
            ELSE <<list[CHOOSE i \in mine : \A j \in mine : j <= i]>>]

\* ----------------------------------------------------------------- actions

\* updateTrustedIpfsClusterIds up to its first await: the entries of the map
\* as Object.entries lists them now, and wasTrusted of the first.
enterReconcile(mode, currentBlockNumber, map, set, listed, second, stable) ==
    [mode |-> mode, currentBlockNumber |-> currentBlockNumber,
     entries |-> map, index |-> 1,
     wasTrusted |-> IF map = <<>> THEN FALSE
                    ELSE SetHas(set, map[1].value.ipfsClusterId),
     wasChange |-> FALSE, listed |-> listed,
     verdicts |-> <<>>, evaluated |-> <<>>, stored |-> <<>>, before |-> set,
     second |-> second, stable |-> stable]

\* A plausible bug: the loop reads the map again at every iteration.
loopEntryFromLiveMap(entries, map, index) ==
    IF index <= Len(map) THEN map[index] ELSE entries[index]

\* The [hotkey, ipfsInscription] pair of the iteration: an element of the
\* array Object.entries built when the loop began.
loopEntry(entries, map, index) == entries[index]

\* Where the pass is suspended after that: at the await on canBeTrusted, or
\* returned (no entries).
pcAfterEnter(map) == IF map = <<>> THEN "reconciled" ELSE "evaluate"

\* subscribeFinalizedHeads delivers the next head: the callback starts and
\* suspends at its awaits on getBlock and queryCommitmentsForIpfsClusterIds.
HeadArrives(t) ==
    /\ pc[t] = "idle"
    /\ head < MaxBlock
    /\ head' = head + 1
    /\ pc' = [pc EXCEPT ![t] = "resync"]
    /\ frame' = [frame EXCEPT ![t] = [IdleFrame EXCEPT !.mode = "cycle",
                                                       !.currentBlockNumber = head + 1]]
    /\ cycleLog' = [cycleLog EXCEPT ![t] = <<>>]
    /\ UNCHANGED <<latestInscriptionMap, trustedIpfsClusterIds, serviceJson, chain,
                   argv, lastApplied, probe>>

\* The commitment query answers with `list`: updateLatestInscriptionMap
\* merges it, the callback calls updateTrustedIpfsClusterIds.
ResyncResolved(t, list) ==
    /\ pc[t] = "resync"
    /\ LET map == resyncLoop(latestInscriptionMap, list, 1)
       IN  /\ latestInscriptionMap' = map
           /\ frame' = [frame EXCEPT ![t] =
                  enterReconcile("cycle", frame[t].currentBlockNumber, map,
                                 trustedIpfsClusterIds,
                                 {list[i].hotkey : i \in 1..Len(list)}, FALSE, TRUE)]
           /\ pc' = [pc EXCEPT ![t] = pcAfterEnter(map)]
           /\ cycleLog' = [cycleLog EXCEPT ![t] =
                  IF map = <<>> THEN <<"reconciled">> ELSE <<>>]
    /\ lastApplied' = AppliedByList(lastApplied, list)
    /\ UNCHANGED <<trustedIpfsClusterIds, serviceJson, chain, argv, head, probe>>

\* canBeTrusted answers for the entry at frame.index: the verdict is applied
\* and the loop goes on to the next entry's wasTrusted, or returns.
Evaluate(t) ==
    /\ pc[t] = "evaluate"
    /\ LET f == frame[t]
           entry == loopEntry(f.entries, latestInscriptionMap, f.index)
           currentlyTrusted ==
               canBeTrusted(chain, entry.key, argv.minStake, entry.value,
                            f.currentBlockNumber, argv.timeWindow)
           set == applyVerdict(trustedIpfsClusterIds, entry.value.ipfsClusterId,
                               f.wasTrusted, currentlyTrusted)
           last == f.index = Len(f.entries)
       IN  /\ trustedIpfsClusterIds' = set
           /\ frame' = [frame EXCEPT ![t] =
                  [f EXCEPT !.wasChange = nextWasChange(f.wasChange, f.wasTrusted, currentlyTrusted),
                            !.verdicts = Append(f.verdicts, currentlyTrusted),
                            !.evaluated = Append(f.evaluated, entry),
                            !.stored = Append(f.stored,
                                              MapGet(latestInscriptionMap, f.entries[f.index].key)),
                            !.index = f.index + 1,
                            !.wasTrusted =
                                IF last THEN FALSE
                                ELSE SetHas(set, loopEntry(f.entries, latestInscriptionMap,
                                                           f.index + 1).value.ipfsClusterId)]]
           /\ pc' = [pc EXCEPT ![t] = IF last THEN "reconciled" ELSE "evaluate"]
           /\ cycleLog' = [cycleLog EXCEPT ![t] =
                  IF last /\ f.mode = "cycle" THEN <<"reconciled">> ELSE cycleLog[t]]
    /\ UNCHANGED <<latestInscriptionMap, serviceJson, chain, argv, head, lastApplied, probe>>

\* A plausible bug: the hook is called whenever the trusted set changed.
restartWhenChanged(wasChange, didUpdate) == wasChange

\* if (didUpdate) restartIpfsClusterService(), inside if (wasChange).
restartCalled(wasChange, didUpdate) == wasChange /\ didUpdate

\* The callback goes on after updateTrustedIpfsClusterIds returned: the
\* service.json update if wasChange, the restart hook if it wrote.
AfterReconcile(t) ==
    /\ pc[t] = "reconciled"
    /\ frame[t].mode = "cycle"
    /\ LET wasChange == frame[t].wasChange
           update == updateTrustedPeersInServiceJsonFile(
                         serviceJson, trustedIpfsClusterIds, argv.alwaysUpdateServiceJson)
           didUpdate == wasChange /\ update.returned
       IN  /\ serviceJson' = IF wasChange THEN update.file ELSE serviceJson
           /\ cycleLog' = [cycleLog EXCEPT ![t] =
                  cycleLog[t]
                  \o (IF wasChange /\ update.wrote THEN <<"write">> ELSE <<>>)
                  \o (IF restartCalled(wasChange, didUpdate) THEN <<"restart">> ELSE <<>>)]
    /\ pc' = [pc EXCEPT ![t] = "done"]
    /\ UNCHANGED <<latestInscriptionMap, trustedIpfsClusterIds, chain, argv, head,
                   frame, lastApplied, probe>>

\* The callback's promise settles.
CallbackReturns(t) ==
    /\ pc[t] = "done"
    /\ pc' = [pc EXCEPT ![t] = "idle"]
    /\ frame' = [frame EXCEPT ![t] = IdleFrame]
    /\ cycleLog' = [cycleLog EXCEPT ![t] = <<>>]
    /\ UNCHANGED <<latestInscriptionMap, trustedIpfsClusterIds, serviceJson, chain,
                   argv, head, lastApplied, probe>>

\* A direct call of updateLatestInscriptionMapFromExtrinsics on a block, run
\* to its end (its awaits come before the loop).
ExtractBlock(block) ==
    /\ AllIdle
    /\ latestInscriptionMap' =
           extractLoop(latestInscriptionMap, block, 0, argv.netuid,
                       argv.allowUnsuccessfulCommitments)
    /\ lastApplied' =
           AppliedByBlock(lastApplied, block, argv.netuid,
                          argv.allowUnsuccessfulCommitments)
    /\ UNCHANGED <<trustedIpfsClusterIds, serviceJson, chain, argv, head, pc, frame,
                   cycleLog, probe>>

\* A direct call of updateLatestInscriptionMap, the query answering `list`.
ResyncList(list) ==
    /\ AllIdle
    /\ latestInscriptionMap' = resyncLoop(latestInscriptionMap, list, 1)
    /\ lastApplied' = AppliedByList(lastApplied, list)
    /\ UNCHANGED <<trustedIpfsClusterIds, serviceJson, chain, argv, head, pc, frame,
                   cycleLog, probe>>

\* A direct call of updateTrustedIpfsClusterIds at a block number.
ReconcileCall(t, currentBlockNumber) ==
    /\ pc[t] = "idle"
    /\ frame' = [frame EXCEPT ![t] =
           enterReconcile("call", currentBlockNumber, latestInscriptionMap,
                          trustedIpfsClusterIds, {}, FALSE, TRUE)]
    /\ pc' = [pc EXCEPT ![t] = pcAfterEnter(latestInscriptionMap)]
    /\ UNCHANGED <<latestInscriptionMap, trustedIpfsClusterIds, serviceJson, chain,
                   argv, head, cycleLog, lastApplied, probe>>

\* The caller of a returned direct call calls again at once, with the same
\* block number.
ReconcileAgain(t) ==
    /\ pc[t] = "reconciled"
    /\ frame[t].mode = "call"
    /\ ~frame[t].second
    /\ frame' = [frame EXCEPT ![t] =
           enterReconcile("call", frame[t].currentBlockNumber, latestInscriptionMap,
                          trustedIpfsClusterIds, {}, TRUE, frame[t].stable)]
    /\ pc' = [pc EXCEPT ![t] = pcAfterEnter(latestInscriptionMap)]
    /\ UNCHANGED <<latestInscriptionMap, trustedIpfsClusterIds, serviceJson, chain,
                   argv, head, cycleLog, lastApplied, probe>>

\* The caller of a returned direct call goes on.
ReconcileReturns(t) ==
    /\ pc[t] = "reconciled"
    /\ frame[t].mode = "call"
    /\ pc' = [pc EXCEPT ![t] = "idle"]
    /\ frame' = [frame EXCEPT ![t] = IdleFrame]
    /\ UNCHANGED <<latestInscriptionMap, trustedIpfsClusterIds, serviceJson, chain,
                   argv, head, cycleLog, lastApplied, probe>>

\* A direct call of updateTrustedPeersInServiceJsonFile.
SyncCall(alwaysUpdate) ==
    /\ AllIdle
    /\ serviceJson' =
           updateTrustedPeersInServiceJsonFile(
               serviceJson, trustedIpfsClusterIds, alwaysUpdate).file
    /\ UNCHANGED <<latestInscriptionMap, trustedIpfsClusterIds, chain, argv, head, pc,
                   frame, cycleLog, lastApplied, probe>>

\* What the chain says of hotkey h: its uid, its permit, its stake.
ChainView(c, h) ==
    <<c.uids[h], c.validatorPermit[UidOf(h) + 1], c.totalHotkeyStake[h]>>

\* The chain moves on for one hotkey: it registers or is pruned, gains or
\* loses its permit or its stake.  A direct call under way is no longer one
\* made under an unchanged chain state.
ChainChange(next) ==
    /\ next # chain
    /\ \E h \in Hotkeys : \A g \in Hotkeys \ {h} : ChainView(next, g) = ChainView(chain, g)
    /\ chain' = next
    /\ frame' = [t \in Tasks |->
           IF frame[t].mode = "call" THEN [frame[t] EXCEPT !.stable = FALSE]
           ELSE frame[t]]
    /\ UNCHANGED <<latestInscriptionMap, trustedIpfsClusterIds, serviceJson, argv, head,
                   pc, cycleLog, lastApplied, probe>>

\* The listener: its finalized-head callbacks run one after the other, and
\* between them the extractor, the resync and the service.json update are
\* called directly.
Next ==
    \/ AllIdle /\ HeadArrives(1)
    \/ \E t \in Tasks, list \in CommitmentLists : ResyncResolved(t, list)
    \/ \E t \in Tasks : Evaluate(t)
    \/ \E t \in Tasks : AfterReconcile(t)
    \/ \E t \in Tasks : CallbackReturns(t)
    \/ \E block \in SingleExtrinsicBlocks : ExtractBlock(block)
    \/ \E list \in CommitmentLists : ResyncList(list)
    \/ \E alwaysUpdate \in BOOLEAN : SyncCall(alwaysUpdate)
    \/ \E next \in ListenerChains : ChainChange(next)

Spec == Init /\ [][Next]_vars

\* The functions that fill the map and the reconcile pass, called directly
\* one after the other at any block number, as the chain moves on.
InitCalls == Init /\ ~argv.alwaysUpdateServiceJson

NextCalls ==
    \/ \E block \in SingleExtrinsicBlocks : ExtractBlock(block)
    \/ \E list \in CommitmentLists : ResyncList(list)
    \/ \E currentBlockNumber \in Blocks : AllIdle /\ ReconcileCall(1, currentBlockNumber)
    \/ \E t \in Tasks : Evaluate(t)
    \/ \E t \in Tasks : ReconcileAgain(t)
    \/ \E t \in Tasks : ReconcileReturns(t)
    \/ \E next \in ListenerChains : ChainChange(next)

SpecCalls == InitCalls /\ [][NextCalls]_vars

\* The listener as main() subscribes it: subscribeFinalizedHeads calls the
\* async callback for every head and does not wait for the promise of the
\* call before, so a head that arrives while a callback is suspended at an
\* await starts another one.  No head was delivered yet; the first is block
\* 0.  The chain state stands still over the blocks delivered.
InitConc ==
    /\ latestInscriptionMap = <<>>
    /\ trustedIpfsClusterIds = <<>>
    /\ serviceJson = ServiceJsonFile(JsonArray(<<"Qm1">>))
    /\ chain \in ListenerChains
    /\ argv = [netuid |-> Netuid, minStake |-> MinStake, timeWindow |-> TimeWindow,
               allowUnsuccessfulCommitments |-> FALSE,
               alwaysUpdateServiceJson |-> FALSE]
    /\ head = -1
    /\ pc = [t \in Tasks |-> "idle"]
    /\ frame = [t \in Tasks |-> IdleFrame]
    /\ cycleLog = [t \in Tasks |-> <<>>]
    /\ lastApplied = [h \in Hotkeys |-> <<>>]
    /\ probe = NoProbe

\* The callback of a head runs in the first free task.
FreeTask(t) == pc[t] = "idle" /\ \A u \in Tasks : u < t => pc[u] # "idle"

NextConc ==
    \/ \E t \in Tasks : FreeTask(t) /\ HeadArrives(t)
    \/ \E t \in Tasks, list \in CommitmentLists : ResyncResolved(t, list)
    \/ \E t \in Tasks : Evaluate(t)
    \/ \E t \in Tasks : AfterReconcile(t)
    \/ \E t \in Tasks : CallbackReturns(t)

SpecConc == InitConc /\ [][NextConc]_vars

\* One of the three awaited subtensorModule queries of canBeTrusted rejects
\* (the node is unreachable, the query times out).  Neither canBeTrusted nor
\* updateTrustedIpfsClusterIds nor the callback has a try/catch: the
\* rejection leaves the loop at the entry under evaluation and becomes the
\* rejection of the callback's promise.
EvaluateRejects(t) ==
    /\ pc[t] = "evaluate"
    /\ pc' = [pc EXCEPT ![t] = "rejected"]
    /\ UNCHANGED <<latestInscriptionMap, trustedIpfsClusterIds, serviceJson, chain,
                   argv, head, frame, cycleLog, lastApplied, probe>>

\* What the runtime does with a rejected promise nobody handles.
RejectionOutcomes == {"warning", "exit"}

\* Nothing handles the rejected promise of the callback: the runtime prints
\* a warning and the listener goes on with the next head, or the runtime
\* ends the process.
UnhandledRejection(t, outcome) ==
    /\ pc[t] = "rejected"
    /\ pc' = IF outcome = "exit" THEN [u \in Tasks |-> "exited"]
             ELSE [pc EXCEPT ![t] = "idle"]
    /\ frame' = [frame EXCEPT ![t] = IdleFrame]
    /\ cycleLog' = [cycleLog EXCEPT ![t] = <<>>]
    /\ UNCHANGED <<latestInscriptionMap, trustedIpfsClusterIds, serviceJson, chain,
                   argv, head, lastApplied, probe>>

\* The listener, one callback at a time, with chain queries that may fail.
NextFail ==
    \/ AllIdle /\ HeadArrives(1)
    \/ \E t \in Tasks, list \in CommitmentLists : ResyncResolved(t, list)
    \/ \E t \in Tasks : Evaluate(t)
    \/ \E t \in Tasks : EvaluateRejects(t)
    \/ \E t \in Tasks : AfterReconcile(t)
    \/ \E t \in Tasks : CallbackReturns(t)
    \/ \E t \in Tasks, outcome \in RejectionOutcomes : UnhandledRejection(t, outcome)
    \/ \E next \in ListenerChains : ChainChange(next)

SpecFail == Init /\ [][NextFail]_vars

\* ------------------------------- reconcile passes over an ageing inscription

\* hkA is registered, permitted and staked, and inscribed Qm1; beside it the
\* map may hold an inscription of Qm2 by hkB, of any standing, before or
\* after hkA's.  The map and the chain state stay as they are.
ExpiryMaps ==
    LET a(at) == [key |-> "hkA",
                  value |-> [ipfsClusterId |-> "Qm1", hotkey |-> "hkA", inscribedAt |-> at]]
        b == [key |-> "hkB",
              value |-> [ipfsClusterId |-> "Qm2", hotkey |-> "hkB", inscribedAt |-> 0]]
    IN  UNION {{<<a(at)>>, <<a(at), b>>, <<b, a(at)>>} : at \in Blocks}

\* The block numbers of the passes: up to past the latest expiry.
ExpiryBlocks == 0..(2 * MaxBlock + 1)

InitExpiry ==
    /\ latestInscriptionMap \in ExpiryMaps
    /\ trustedIpfsClusterIds = <<>>
    /\ serviceJson = ServiceJsonFile(JsonArray(<<>>))
    /\ chain \in {ChainOf(st) : st \in {f \in [Hotkeys -> Standings] : f["hkA"] = "ok"}}
    /\ argv \in [netuid : {Netuid}, minStake : {MinStake}, timeWindow : Blocks,
                 allowUnsuccessfulCommitments : {FALSE},
                 alwaysUpdateServiceJson : {FALSE}]
    /\ head = 0
    /\ pc = [t \in Tasks |-> "idle"]
    /\ frame = [t \in Tasks |-> IdleFrame]
    /\ cycleLog = [t \in Tasks |-> <<>>]
    /\ lastApplied = [h \in Hotkeys |-> <<>>]
    /\ probe = [call |-> "passes", runs |-> <<>>]

\* updateTrustedIpfsClusterIds is called at a block number not below that of
\* the pass before.
ExpiryCall(currentBlockNumber) ==
    /\ AllIdle
    /\ Len(probe.runs) < MaxRuns
    /\ currentBlockNumber >= head
    /\ head' = currentBlockNumber
    /\ frame' = [frame EXCEPT ![1] =
           enterReconcile("call", currentBlockNumber, latestInscriptionMap,
                          trustedIpfsClusterIds, {}, FALSE, TRUE)]
    /\ pc' = [pc EXCEPT ![1] = pcAfterEnter(latestInscriptionMap)]
    /\ UNCHANGED <<latestInscriptionMap, trustedIpfsClusterIds, serviceJson, chain,
                   argv, cycleLog, lastApplied, probe>>

\* The pass returns wasChange; the run is recorded.
ExpiryReturns(t) ==
    /\ pc[t] = "reconciled"
    /\ probe' = [probe EXCEPT !.runs =
           Append(@, [currentBlockNumber |-> frame[t].currentBlockNumber,
                      returned |-> frame[t].wasChange,
                      before |-> frame[t].before,
                      after |-> trustedIpfsClusterIds])]
    /\ pc' = [pc EXCEPT ![t] = "idle"]
    /\ frame' = [frame EXCEPT ![t] = IdleFrame]
    /\ UNCHANGED <<latestInscriptionMap, trustedIpfsClusterIds, serviceJson, chain,
                   argv, head, cycleLog, lastApplied>>

NextExpiry ==
    \/ \E currentBlockNumber \in ExpiryBlocks : ExpiryCall(currentBlockNumber)
    \/ \E t \in Tasks : Evaluate(t)
    \/ \E t \in Tasks : ExpiryReturns(t)

SpecExpiry == InitExpiry /\ [][NextExpiry]_vars

\* ------------------------------------------------- canBeTrusted called once

\* Every chain state, --min-stake and --time-window.
InitTrust ==
    /\ latestInscriptionMap = <<>>
    /\ trustedIpfsClusterIds = <<>>
    /\ serviceJson = ServiceJsonFile(JsonArray(<<>>))
    /\ chain \in ChainStates
    /\ argv \in [netuid : {Netuid}, minStake : 0..MaxMinStake, timeWindow : Blocks,
                 allowUnsuccessfulCommitments : {FALSE},
                 alwaysUpdateServiceJson : {FALSE}]
    /\ head = 0
    /\ pc = [t \in Tasks |-> "idle"]
    /\ frame = [t \in Tasks |-> IdleFrame]
    /\ cycleLog = [t \in Tasks |-> <<>>]
    /\ lastApplied = [h \in Hotkeys |-> <<>>]
    /\ probe = NoProbe

\* canBeTrusted for an inscription of its own hotkey, all its reads answered
\* from the one chain state.
TrustCall(inscription, currentBlockNumber) ==
    /\ probe = NoProbe
    /\ probe' = [call |-> "canBeTrusted",
                 inscription |-> inscription,
                 currentBlockNumber |-> currentBlockNumber,
                 returned |-> canBeTrusted(chain, inscription.hotkey, argv.minStake,
                                           inscription, currentBlockNumber,
                                           argv.timeWindow)]
    /\ UNCHANGED <<latestInscriptionMap, trustedIpfsClusterIds, serviceJson, chain,
                   argv, head, pc, frame, cycleLog, lastApplied>>

NextTrust ==
    \E inscription \in Inscriptions, currentBlockNumber \in Blocks :
        TrustCall(inscription, currentBlockNumber)

SpecTrust == InitTrust /\ [][NextTrust]_vars

\* --------------------------- updateTrustedPeersInServiceJsonFile called directly

\* The trusted sets: the cluster ids in every insertion order.
TrustedSets == {set \in SeqsUpTo(ClusterIds, Cardinality(ClusterIds)) : IsInjective(set)}

\* Every trusted set against every service.json.
InitSync ==
    /\ latestInscriptionMap = <<>>
    /\ trustedIpfsClusterIds \in TrustedSets
    /\ serviceJson \in InitialFiles
    /\ chain = ChainOf([h \in Hotkeys |-> "ok"])
    /\ argv = [netuid |-> Netuid, minStake |-> MinStake, timeWindow |-> TimeWindow,
               allowUnsuccessfulCommitments |-> FALSE,
               alwaysUpdateServiceJson |-> FALSE]
    /\ head = 0
    /\ pc = [t \in Tasks |-> "idle"]
    /\ frame = [t \in Tasks |-> IdleFrame]
    /\ cycleLog = [t \in Tasks |-> <<>>]
    /\ lastApplied = [h \in Hotkeys |-> <<>>]
    /\ probe = NoProbe

\* The call, with the file it found, whether it wrote, what it returned, and
\* whether the call before it wrote.
SyncProbe(alwaysUpdate) ==
    LET update == updateTrustedPeersInServiceJsonFile(
                      serviceJson, trustedIpfsClusterIds, alwaysUpdate)
    IN  /\ serviceJson' = update.file
        /\ probe' = [call |-> "sync",
                     alwaysUpdate |-> alwaysUpdate,
                     before |-> serviceJson,
                     wrote |-> update.wrote,
                     returned |-> update.returned,
                     afterWrite |-> probe.call = "sync" /\ probe.wrote]
        /\ UNCHANGED <<latestInscriptionMap, trustedIpfsClusterIds, chain, argv, head,
                       pc, frame, cycleLog, lastApplied>>

NextSync == \E alwaysUpdate \in BOOLEAN : SyncProbe(alwaysUpdate)

SpecSync == InitSync /\ [][NextSync]_vars

\* ---------------------- updateLatestInscriptionMapFromExtrinsics called once

\* The maps the extractor may find: empty, and after one and after two
\* inscriptions.
InitExtract ==
    /\ latestInscriptionMap \in
           {<<>>,
            <<[key |-> "hkA", value |-> [ipfsClusterId |-> "Qm1", hotkey |-> "hkA", inscribedAt |-> 0]]>>,
            <<[key |-> "hkB", value |-> [ipfsClusterId |-> "Qm1", hotkey |-> "hkB", inscribedAt |-> 0]],
              [key |-> "hkA", value |-> [ipfsClusterId |-> "Qm2", hotkey |-> "hkA", inscribedAt |-> 0]]>>}
    /\ trustedIpfsClusterIds = <<>>
    /\ serviceJson = ServiceJsonFile(JsonArray(<<>>))
    /\ chain = ChainOf([h \in Hotkeys |-> "ok"])
    /\ argv \in [netuid : {Netuid}, minStake : {MinStake}, timeWindow : {TimeWindow},
                 allowUnsuccessfulCommitments : BOOLEAN,
                 alwaysUpdateServiceJson : {FALSE}]
    /\ head = 0
    /\ pc = [t \in Tasks |-> "idle"]
    /\ frame = [t \in Tasks |-> IdleFrame]
    /\ cycleLog = [t \in Tasks |-> <<>>]
    /\ lastApplied = [h \in Hotkeys |-> <<>>]
    /\ probe = NoProbe

\* The call, with the block it was handed and the map it found.
ExtractProbe(block) ==
    /\ probe = NoProbe
    /\ latestInscriptionMap' =
           extractLoop(latestInscriptionMap, block, 0, argv.netuid,
                       argv.allowUnsuccessfulCommitments)
    /\ probe' = [call |-> "extract", block |-> block, before |-> latestInscriptionMap]
    /\ UNCHANGED <<trustedIpfsClusterIds, serviceJson, chain, argv, head, pc, frame,
                   cycleLog, lastApplied>>

NextExtract == probe = NoProbe /\ \E block \in FullBlocks : ExtractProbe(block)

SpecExtract == InitExtract /\ [][NextExtract]_vars

\* ------------------------------------------------------------------ claims

\* The cluster ids of the array in the file's trusted_peers, none for null.
StoredPeers(file) ==
    LET value == JsonParse(file.consensus.crdt.trusted_peers)
    IN  IF value.isNull THEN {} ELSE Range(value.array)

\* The last entry (in iteration order) of a pass that carries the cluster id.
LastCarrying(entries, ipfsClusterId) ==
    CHOOSE i \in 1..Len(entries) :
        /\ entries[i].value.ipfsClusterId = ipfsClusterId
        /\ \A j \in 1..Len(entries) :
               entries[j].value.ipfsClusterId = ipfsClusterId => j <= i

Carried(entries) == {entries[i].value.ipfsClusterId : i \in 1..Len(entries)}

\* C1: canBeTrusted returns true exactly when the hotkey is registered in the
\* subnet, its uid holds a validator permit, its total stake is at least
\* minStake TAO and inscribedAt >= currentBlockNumber - timeWindow; a stake of
\* exactly minStake and an inscription exactly timeWindow blocks old are
\* trusted.
C1_TrustedIffFourFactors ==
    probe.call = "canBeTrusted" =>
        LET h == probe.inscription.hotkey
        IN  probe.returned <=>
                /\ ~chain.uids[h].isNone
                /\ chain.validatorPermit[chain.uids[h].value + 1]
                /\ chain.totalHotkeyStake[h] >= argv.minStake * RaoPerTao
                /\ probe.inscription.inscribedAt >= probe.currentBlockNumber - argv.timeWindow

\* A call at both boundaries that returned true.
C1_Witness ==
    /\ probe.call = "canBeTrusted"
    /\ probe.returned
    /\ argv.minStake > 0
    /\ chain.totalHotkeyStake[probe.inscription.hotkey] = argv.minStake * RaoPerTao
    /\ probe.currentBlockNumber > 0
    /\ probe.inscription.inscribedAt = probe.currentBlockNumber - argv.timeWindow

\* C2: a second updateTrustedIpfsClusterIds call made with the same map, the
\* same chain state and the same block number as the first returns false and
\* leaves the trusted set as it found it.
C2_SecondPassChangesNothing ==
    \A t \in Tasks :
        (pc[t] = "reconciled" /\ frame[t].second /\ frame[t].stable) =>
            /\ ~frame[t].wasChange
            /\ Range(trustedIpfsClusterIds) = Range(frame[t].before)

\* C3: when a pass has returned, a cluster id carried by an entry of the map
\* is in the trusted set exactly when the verdict of the last entry carrying
\* it was trusted.
C3_MembershipIsLastVerdict ==
    \A t \in Tasks :
        pc[t] = "reconciled" =>
            \A id \in Carried(frame[t].entries) :
                SetHas(trustedIpfsClusterIds, id)
                    <=> frame[t].verdicts[LastCarrying(frame[t].entries, id)]

\* A returned pass in which two entries carried one cluster id with
\* different verdicts.
C3_Witness ==
    \E t \in Tasks :
        /\ pc[t] = "reconciled"
        /\ Len(frame[t].entries) = 2
        /\ frame[t].entries[1].value.ipfsClusterId = frame[t].entries[2].value.ipfsClusterId
        /\ frame[t].verdicts[1] # frame[t].verdicts[2]

\* C4: when a pass has returned, every cluster id in the trusted set is the
\* cluster id of an entry now in the map that the pass found trusted.
C4_TrustedIdsAreCarriedAndTrusted ==
    \A t \in Tasks :
        pc[t] = "reconciled" =>
            \A id \in Range(trustedIpfsClusterIds) :
                \E i \in 1..Len(frame[t].entries) :
                    /\ frame[t].entries[i] \in Range(latestInscriptionMap)
                    /\ frame[t].entries[i].value.ipfsClusterId = id
                    /\ frame[t].verdicts[i]

\* C5: the map holds one entry per hotkey, under the hotkey of the
\* inscription, and it is the last observation handed to the map for that
\* hotkey, whatever the block heights.
C5_OneEntryLastWriteWins ==
    /\ IsInjective([i \in 1..Len(latestInscriptionMap) |-> latestInscriptionMap[i].key])
    /\ \A i \in 1..Len(latestInscriptionMap) :
           latestInscriptionMap[i].key = latestInscriptionMap[i].value.hotkey
    /\ \A h \in Hotkeys :
           IF lastApplied[h] = <<>> THEN h \notin MapKeys(latestInscriptionMap)
           ELSE /\ h \in MapKeys(latestInscriptionMap)
                /\ MapGet(latestInscriptionMap, h) = lastApplied[h][1]

\* The only hotkey of the map was trusted for a cluster id, and its entry now
\* carries another one, inscribed at the lowest block: it was overwritten.
C5_Witness ==
    /\ Len(latestInscriptionMap) = 1
    /\ latestInscriptionMap[1].value.inscribedAt = 0
    /\ lastApplied[latestInscriptionMap[1].key] = <<latestInscriptionMap[1].value>>
    /\ \E id \in Range(trustedIpfsClusterIds) :
           id # latestInscriptionMap[1].value.ipfsClusterId

\* The step is a resync answered with the list (whose inscriptions are then
\* all in the map).
IsResync(list) ==
    /\ \A i \in 1..Len(list) :
           \E j \in 1..Len(latestInscriptionMap') : latestInscriptionMap'[j].value = list[i]
    /\ \/ ResyncList(list)
       \/ \E t \in Tasks : ResyncResolved(t, list)

\* C6: no step removes a hotkey from the map, and a resync leaves the entry
\* of every hotkey its list omits as it was.
C6_NeverDeleted ==
    [][latestInscriptionMap' # latestInscriptionMap =>
           /\ MapKeys(latestInscriptionMap) \subseteq MapKeys(latestInscriptionMap')
           /\ \A list \in CommitmentLists :
                  IsResync(list) =>
                      \A h \in MapKeys(latestInscriptionMap) \ {list[i].hotkey : i \in 1..Len(list)} :
                          MapGet(latestInscriptionMap', h) = MapGet(latestInscriptionMap, h)]_vars

\* A callback whose resync omitted a hotkey of the map goes on to evaluate
\* that hotkey's entry.
C6_Witness ==
    \E t \in Tasks :
        /\ pc[t] = "evaluate"
        /\ frame[t].mode = "cycle"
        /\ \E i \in 1..Len(frame[t].entries) : frame[t].entries[i].key \notin frame[t].listed

\* C7: the extractor creates or changes the entry of a hotkey only for an
\* extrinsic of the block that is a setCommitment call for the subnet, signed
\* by that hotkey, whose payload carries a cluster id, and that succeeded
\* unless allowUnsuccessfulCommitments is set; a failed commitment with the
\* flag off leaves the map as it was.
C7_OnlyAcceptableExtrinsicsRecorded ==
    probe.call = "extract" =>
        \A h \in MapKeys(latestInscriptionMap) :
            (h \notin MapKeys(probe.before)
             \/ MapGet(latestInscriptionMap, h) # MapGet(probe.before, h)) =>
                \E i \in 1..Len(probe.block.extrinsics) :
                    /\ Acceptable(probe.block, i, Netuid, argv.allowUnsuccessfulCommitments)
                    /\ probe.block.extrinsics[i].signer = h
                    /\ MapGet(latestInscriptionMap, h) = ObservationOf(probe.block, i)

\* With the flag off, a block whose second extrinsic succeeded and whose
\* first, a commitment of another cluster id by a hotkey of the map, failed:
\* that hotkey's entry is as it was.
C7_Witness ==
    /\ probe.call = "extract"
    /\ ~argv.allowUnsuccessfulCommitments
    /\ Len(probe.block.extrinsics) = 2
    /\ probe.block.events[3].event = "ExtrinsicSuccess"
    /\ LET x == probe.block.extrinsics[1]
       IN  /\ x.isSetCommitment
           /\ x.netuid = Netuid
           /\ x.commitmentInfo \in ClusterIds
           /\ probe.block.events[2].event = "ExtrinsicFailed"
           /\ probe.block.extrinsics[2].signer # x.signer
           /\ x.signer \in MapKeys(probe.before)
           /\ MapGet(probe.before, x.signer).ipfsClusterId # x.commitmentInfo
           /\ MapGet(latestInscriptionMap, x.signer) = MapGet(probe.before, x.signer)

\* C8: updateTrustedPeersInServiceJsonFile leaves the file alone and returns
\* false exactly when the stored peers are, as a set, the trusted set and
\* alwaysUpdate is off; otherwise it writes the members of the trusted set as
\* the list and returns true.
C8_WritesUnlessEqualAndNotForced ==
    probe.call = "sync" =>
        IF StoredPeers(probe.before) = Range(trustedIpfsClusterIds) /\ ~probe.alwaysUpdate
        THEN /\ ~probe.wrote
             /\ ~probe.returned
             /\ serviceJson = probe.before
        ELSE /\ probe.wrote
             /\ probe.returned
             /\ JsonParse(serviceJson.consensus.crdt.trusted_peers)
                    = JsonArray(trustedIpfsClusterIds)

\* A call that did not write although the stored list is not the trusted set
\* in its order: it is longer, or ordered otherwise.
C8_Witness ==
    /\ probe.call = "sync"
    /\ ~probe.wrote
    /\ ~probe.returned
    /\ trustedIpfsClusterIds # <<>>
    /\ JsonParse(probe.before.consensus.crdt.trusted_peers) # JsonArray(trustedIpfsClusterIds)

\* C9: after a write, the file's list read back as a set is the trusted set,
\* and a call that follows a write with alwaysUpdate off writes nothing.
C9_WrittenListReadsBackAsTrustedSet ==
    probe.call = "sync" =>
        /\ probe.wrote =>
               /\ ~JsonParse(serviceJson.consensus.crdt.trusted_peers).isNull
               /\ StoredPeers(serviceJson) = Range(trustedIpfsClusterIds)
               /\ setIsEqual(NewSet(JsonParse(serviceJson.consensus.crdt.trusted_peers).array),
                             trustedIpfsClusterIds)
        /\ (probe.afterWrite /\ ~probe.alwaysUpdate) => ~probe.wrote

\* A call with alwaysUpdate off that followed a write of two cluster ids and
\* wrote nothing.
C9_Witness ==
    /\ probe.call = "sync"
    /\ probe.afterWrite
    /\ ~probe.alwaysUpdate
    /\ ~probe.wrote
    /\ Len(trustedIpfsClusterIds) = 2

\* C10: in a callback the restart hook is called at most once, directly after
\* the file was written, which is after the reconcile pass returned; without
\* a write it is not called.
C10_RestartOnlyAfterWrite ==
    \A t \in Tasks :
        LET log == cycleLog[t]
            at(e) == {i \in 1..Len(log) : log[i] = e}
        IN  /\ Cardinality(at("restart")) <= 1
            /\ Cardinality(at("write")) <= 1
            /\ \A i \in at("restart") : i > 1 /\ log[i - 1] = "write"
            /\ \A i \in at("write") : i > 1 /\ log[i - 1] = "reconciled"
            /\ at("restart") # {} => pc[t] = "done"
            /\ (pc[t] = "done" /\ at("write") = {}) => at("restart") = {}

\* A finished callback whose pass changed the trusted set, that found the
\* file up to date and so neither wrote nor called the hook.
C10_Witness ==
    \E t \in Tasks :
        /\ pc[t] = "done"
        /\ frame[t].wasChange
        /\ cycleLog[t] = <<"reconciled">>

\* C11: at most one callback is between its first await and its completion.
C11_SingleFlight ==
    Cardinality({t \in Tasks : pc[t] \notin {"idle", "done"}}) <= 1

\* C12: a pass in which a chain query failed for one entry goes on: it has a
\* verdict for every entry of its snapshot, the verdict of the entry whose
\* query failed being "not trusted", and it returns to the callback.
C12_FailClosedPerParticipant ==
    \A t \in Tasks :
        /\ pc[t] # "exited"
        /\ pc[t] = "rejected" =>
               /\ Len(frame[t].verdicts) = Len(frame[t].entries)
               /\ ~frame[t].verdicts[frame[t].index]

\* The last block number at which hkA's inscription of Qm1 is fresh.
ExpiryLimit == MapGet(latestInscriptionMap, "hkA").inscribedAt + argv.timeWindow

\* The run at position k is the first one past the limit.
FirstLate(k) ==
    /\ probe.runs[k].currentBlockNumber > ExpiryLimit
    /\ \A j \in 1..(k - 1) : probe.runs[j].currentBlockNumber <= ExpiryLimit

OtherFields(file) ==
    <<JsonParseString(file.cluster.peername),
      JsonParseString(file.consensus.crdt.cluster_name)>>

\* C14: a call of updateTrustedPeersInServiceJsonFile leaves every field of
\* the document but trusted_peers as it was, the whole file when it does not
\* write, and the trusted set and the inscription map.
C14_SyncChangesOnlyTrustedPeers ==
    [][probe'.call = "sync" =>
           /\ OtherFields(serviceJson') = OtherFields(serviceJson)
           /\ ~probe'.wrote => serviceJson' = serviceJson
           /\ trustedIpfsClusterIds' = trustedIpfsClusterIds
           /\ latestInscriptionMap' = latestInscriptionMap]_vars

\* A call that rewrote the list of a document of the peer named node0.
C14_Witness ==
    /\ probe.call = "sync"
    /\ probe.wrote
    /\ OtherFields(serviceJson) = <<"node0", "ipfs-cluster">>
    /\ serviceJson.consensus.crdt.trusted_peers
           # probe.before.consensus.crdt.trusted_peers

\* The positions (from 1) of the acceptable extrinsics of the block that
\* hotkey h signed.
AcceptableOf(block, h) ==
    {i \in 1..Len(block.extrinsics) :
        /\ Acceptable(block, i, argv.netuid, argv.allowUnsuccessfulCommitments)
        /\ block.extrinsics[i].signer = h}

\* C15: when the extractor has run over a block, the map holds for every
\* signer of an acceptable extrinsic the inscription of its last acceptable
\* extrinsic, inscribed at the block's number, whatever extrinsics were
\* skipped before or after it; the entries of the other hotkeys, the trusted
\* set and service.json are as they were.
C15_SkipsDoNotStopTheBlock ==
    [][probe'.call = "extract" =>
           /\ \A h \in Hotkeys :
                  LET mine == AcceptableOf(probe'.block, h)
                  IN  IF mine = {}
                      THEN /\ (h \in MapKeys(latestInscriptionMap'))
                                  = (h \in MapKeys(latestInscriptionMap))
                           /\ h \in MapKeys(latestInscriptionMap) =>
                                  MapGet(latestInscriptionMap', h) = MapGet(latestInscriptionMap, h)
                      ELSE /\ h \in MapKeys(latestInscriptionMap')
                           /\ MapGet(latestInscriptionMap', h) =
                                  ObservationOf(probe'.block,
                                                CHOOSE i \in mine : \A j \in mine : j <= i)
                           /\ MapGet(latestInscriptionMap', h).inscribedAt = probe'.block.number
           /\ trustedIpfsClusterIds' = trustedIpfsClusterIds
           /\ serviceJson' = serviceJson
           /\ chain' = chain]_vars

\* A block whose first extrinsic was skipped for its payload and whose
\* second, an acceptable one of a hotkey not yet in the map, was recorded.
C15_Witness ==
    /\ probe.call = "extract"
    /\ Len(probe.block.extrinsics) = 2
    /\ probe.block.extrinsics[1].isSetCommitment
    /\ probe.block.extrinsics[1].netuid = Netuid
    /\ probe.block.extrinsics[1].commitmentInfo = "garbage"
    /\ probe.block.events[2].event = "ExtrinsicSuccess"
    /\ Acceptable(probe.block, 2, argv.netuid, argv.allowUnsuccessfulCommitments)
    /\ probe.block.extrinsics[2].signer \notin MapKeys(probe.before)
    /\ probe.block.extrinsics[2].signer \in MapKeys(latestInscriptionMap)

\* C16: the pairs a pass hands to canBeTrusted are the entries the map held
\* when the pass began, in their order, whatever a resync wrote to the map
\* while the pass was suspended.
C16_PassEvaluatesItsSnapshot ==
    \A t \in Tasks :
        /\ pc[t] = "evaluate" =>
               frame[t].evaluated = SubSeq(frame[t].entries, 1, frame[t].index - 1)
        /\ pc[t] \in {"reconciled", "done"} => frame[t].evaluated = frame[t].entries

\* A returned pass that evaluated an inscription the map no longer held at
\* that moment, and a map that has since gained a hotkey.
C16_Witness ==
    \E t \in Tasks :
        /\ pc[t] \in {"reconciled", "done"}
        /\ \E i \in 1..Len(frame[t].evaluated) :
               frame[t].stored[i] # frame[t].evaluated[i].value
        /\ Len(latestInscriptionMap) > Len(frame[t].entries)

\* C17: a pass returns true exactly when it leaves the trusted set with
\* other members than it found.
C17_ReturnsTrueIffSetDiffers ==
    \A t \in Tasks :
        pc[t] = "reconciled" =>
            (frame[t].wasChange <=> Range(trustedIpfsClusterIds) # Range(frame[t].before))

\* C18: when a callback has finished, the peers stored in service.json are
\* the members of the trusted set, whether or not its pass returned true and
\* whatever --always-update-service-json says.
C18_FileEqualsSetAfterCycle ==
    \A t \in Tasks :
        pc[t] = "done" => StoredPeers(serviceJson) = Range(trustedIpfsClusterIds)

\* The pass of the task has returned.
Returned(t) == pc[t] \in {"reconciled", "done"}

\* C19: once the passes of two callbacks have both returned, the trusted set
\* holds a cluster id of the newer pass's snapshot exactly when the newer
\* pass found its last carrier trusted (so a cluster id the newer pass
\* removed as expired is not back in the set); and at the moment a pass
\* applies a verdict, the wasTrusted it read before the await is still the
\* membership of the cluster id in the set.
C19_NewestBlockWins ==
    /\ \A t, u \in Tasks :
           (Returned(t) /\ Returned(u)
            /\ frame[u].currentBlockNumber > frame[t].currentBlockNumber) =>
               \A id \in Carried(frame[u].entries) :
                   SetHas(trustedIpfsClusterIds, id)
                       <=> frame[u].verdicts[LastCarrying(frame[u].entries, id)]
    /\ \A t \in Tasks :
           pc[t] = "evaluate" =>
               frame[t].wasTrusted =
                   SetHas(trustedIpfsClusterIds,
                          frame[t].entries[frame[t].index].value.ipfsClusterId)

\* The four checks hold for the inscription at the block number, on the
\* chain as it is now.
FourChecksPass(hotkey, inscription, currentBlockNumber) ==
    /\ ~chain.uids[hotkey].isNone
    /\ chain.validatorPermit[chain.uids[hotkey].value + 1]
    /\ chain.totalHotkeyStake[hotkey] >= argv.minStake * RaoPerTao
    /\ inscription.inscribedAt >= currentBlockNumber - argv.timeWindow

\* Task t takes a step of its reconcile loop.
LoopStep(t) == pc[t] = "evaluate" /\ frame'[t].index = frame[t].index + 1

\* C20: the trusted set is empty as long as the map is; its members change
\* only in a step of a reconcile loop, and a cluster id enters it only in a
\* step that evaluates an entry of the pass's snapshot carrying it, for which
\* the four checks pass.
C20_NoUnearnedTrust ==
    [][/\ latestInscriptionMap = <<>> => trustedIpfsClusterIds = <<>>
       /\ Range(trustedIpfsClusterIds') # Range(trustedIpfsClusterIds) =>
              \E t \in Tasks : LoopStep(t)
       /\ \A id \in Range(trustedIpfsClusterIds') \ Range(trustedIpfsClusterIds) :
              \E t \in Tasks :
                  /\ LoopStep(t)
                  /\ frame[t].index <= Len(frame[t].entries)
                  /\ LET entry == frame[t].entries[frame[t].index]
                     IN  /\ entry.value.ipfsClusterId = id
                         /\ FourChecksPass(entry.key, entry.value,
                                           frame[t].currentBlockNumber)]_vars

\* A returned pass over two cluster ids that added the one it found trusted
\* and not the other.
C20_Witness ==
    \E t \in Tasks :
        /\ pc[t] = "reconciled"
        /\ frame[t].before = <<>>
        /\ frame[t].verdicts = <<TRUE, FALSE>>
        /\ frame[t].entries[1].value.ipfsClusterId # frame[t].entries[2].value.ipfsClusterId
        /\ trustedIpfsClusterIds = <<frame[t].entries[1].value.ipfsClusterId>>

====
